---- MODULE Spec2Model ----
(***************************************************************************)
(* The content-query layer of the fashion dashboard: the data route        *)
(* (GET /api/data) and the statistics route (GET /api/stats), the queries  *)
(* of lib/database (getAllContent, searchContent, getContentStats,         *)
(* getCategories, getSources), the lazily opened connection (getDatabase,  *)
(* closeDatabase), the SQLite statements they run on the content table,    *)
(* and the migration script that loads the table from a CSV file.          *)
(*                                                                         *)
(* Text is a sequence of one-character strings, so that LIKE, trim and     *)
(* parseInt are computed character by character.  Scores are hundredths.   *)
(***************************************************************************)
EXTENDS Integers, Sequences, FiniteSets, TLC

VARIABLES
  content,      \* the rows of the content table
  dbInstance,   \* lib/database's singleton: "null", or a connection
  request,      \* the query parameters of the request being answered
  storeFault,   \* the failure the store met that request with, or "none"
  response,     \* the answer of the route, until it is sent
  connections,  \* the number of connections the server holds open
  served,       \* the data requests of one client served in the current window
  sequence,     \* the largest id AUTOINCREMENT has given out
  migration,    \* the migration script: where it stands, the CSV it read and
                \* the table it found
  dashboard,    \* the React state of the dashboard page
  inFlight,     \* the requests of the page that are not answered yet
  issued,       \* the number of requests the page has made
  csvRows,      \* the preview script: the rows parsed from the CSV
  phase,        \* the preview script: where main stands
  pool,         \* the preview script: the withConcurrency call under way
  metadataResults, \* the preview script: what the metadata phase returned
  fetched,      \* the preview script: the fetches it has made
  output        \* the preview script: the lines of the CSV it wrote

serverVars == <<content, dbInstance, request, storeFault, response,
                connections, served, sequence, migration>>
pageVars == <<dashboard, inFlight, issued>>
scriptVars == <<csvRows, phase, pool, metadataResults, fetched, output>>
vars == <<serverVars, pageVars, scriptVars>>

(***************************************************************************)
(* Bounds of the model.                                                    *)
(***************************************************************************)
MaxRows == 2
MaxLimit == 2
MaxOffset == 1
MaxLines == 2
MaxSequence == 4
MaxRequests == 5
MaxItems == 3
MaxWorkers == 2

(***************************************************************************)
(* Text helpers.                                                           *)
(***************************************************************************)
\* a plausible slip: a comparison that does not fold case
LowerNone(c) == c

\* ASCII lower-casing of one character (SQLite's LIKE folds ASCII only);
\* the upper-case letters are those of the texts in use.
Lower(c) ==
  CASE c = "A" -> "a" [] c = "B" -> "b" [] c = "F" -> "f" [] c = "I" -> "i"
    [] c = "L" -> "l" [] c = "S" -> "s" [] c = "T" -> "t" [] c = "V" -> "v"
    [] OTHER -> c

IsSpace(c) == c = " "

RECURSIVE TrimStart(_)
TrimStart(s) ==
  IF s # <<>> /\ IsSpace(Head(s)) THEN TrimStart(Tail(s)) ELSE s

RECURSIVE TrimEnd(_)
TrimEnd(s) ==
  IF s # <<>> /\ IsSpace(s[Len(s)]) THEN TrimEnd(SubSeq(s, 1, Len(s) - 1)) ELSE s

\* String.prototype.trim
Trim(s) == TrimEnd(TrimStart(s))

\* SQLite's LIKE: % matches any run of characters, _ matches exactly one,
\* every other character matches itself up to ASCII case.  No ESCAPE clause.
RECURSIVE Like(_, _)
Like(s, pat) ==
  IF pat = <<>> THEN s = <<>>
  ELSE IF Head(pat) = "%"
       THEN Like(s, Tail(pat)) \/ (s # <<>> /\ Like(Tail(s), pat))
       ELSE /\ s # <<>>
            /\ (Head(pat) = "_" \/ Lower(Head(pat)) = Lower(Head(s)))
            /\ Like(Tail(s), Tail(pat))

(***************************************************************************)
(* JavaScript values of the route.                                         *)
(***************************************************************************)
\* URLSearchParams.get: null when the parameter is absent, else its text.
Null == [present |-> FALSE, text |-> <<>>]
Str(t) == [present |-> TRUE, text |-> t]

\* truthiness of a string-or-null
Truthy(v) == v.present /\ v.text # <<>>

\* v || dflt, on text
OrElse(v, dflt) == IF Truthy(v) THEN v.text ELSE dflt

\* an optional text of the filters object: undefined, or a text
Undefined == [defined |-> FALSE, text |-> <<>>]
Defined(t) == [defined |-> TRUE, text |-> t]

\* a number of the filters object: undefined, NaN or an integer
NumUndefined == [kind |-> "undefined", n |-> 0]
NumNull == [kind |-> "null", n |-> 0]
NaN == [kind |-> "nan", n |-> 0]
Num(n) == [kind |-> "int", n |-> n]

\* truthiness of a number: undefined, NaN and 0 are falsy
TruthyNum(x) == x.kind = "int" /\ x.n # 0

Digits == <<"0", "1", "2", "3", "4", "5", "6", "7", "8", "9">>
IsDigit(c) == \E i \in 1..Len(Digits) : Digits[i] = c
DigitVal(c) == (CHOOSE i \in 1..Len(Digits) : Digits[i] = c) - 1

\* the value of the longest prefix of digits of s, continuing from acc
RECURSIVE DigitsValue(_, _)
DigitsValue(s, acc) ==
  IF s # <<>> /\ IsDigit(Head(s))
  THEN DigitsValue(Tail(s), 10 * acc + DigitVal(Head(s)))
  ELSE acc

\* parseInt(text): leading white space skipped, an optional sign, then the
\* longest run of decimal digits; NaN when there is no digit.
parseInt(t) ==
  LET s == TrimStart(t)
      signed == s # <<>> /\ Head(s) \in {"-", "+"}
      body == IF signed THEN Tail(s) ELSE s
  IN IF body = <<>> \/ ~IsDigit(Head(body)) THEN NaN
     ELSE IF signed /\ Head(s) = "-" THEN Num(0 - DigitsValue(body, 0))
     ELSE Num(DigitsValue(body, 0))

(***************************************************************************)
(* The content table.  A row carries the columns the queries read; the     *)
(* timestamps, which no statement of the layer filters or sorts on, are    *)
(* left out.                                                               *)
(***************************************************************************)
\* Column values, shortened: "Fa" for a category such as Fashion, "FaF" for
\* a content type that contains the same word, and so on.
Fa == <<"F", "a">>
St == <<"S", "t">>
Ig == <<"I", "g">>
Tt == <<"T", "t">>
Vi == <<"V", "i">>
FaF == <<"F", "a", "F">>
Be == <<"B", "e">>
Ad == <<"A", "d">>
Url == <<"u">>

CategoryVals == <<Fa, St>>
SourceVals == <<Ig, Tt>>
TypeVals == <<Vi, FaF>>
ScoreVals == <<20, 80>>

Row(cat, src, ct, dl, eng, tr) ==
  [id |-> 0, category |-> cat, url |-> Url, source |-> src,
   time_spent_minutes |-> 0, upvotes |-> 0, views |-> 0,
   engagement_score |-> eng, content_type |-> ct,
   difficulty_level |-> dl, trending_score |-> tr]

\* Rows that differ in their text columns, and rows that differ in scores.
NText == Len(CategoryVals) * Len(SourceVals) * Len(TypeVals)
NScore == Len(ScoreVals) * Len(ScoreVals)

TextRow(k) ==
  Row(CategoryVals[(k % Len(CategoryVals)) + 1],
      SourceVals[((k \div Len(CategoryVals)) % Len(SourceVals)) + 1],
      TypeVals[(k \div (Len(CategoryVals) * Len(SourceVals))) + 1],
      Be, ScoreVals[1], ScoreVals[1])

ScoreRow(k) ==
  Row(St, Tt, Vi, Ad,
      ScoreVals[(k % Len(ScoreVals)) + 1],
      ScoreVals[(k \div Len(ScoreVals)) + 1])

RowPool ==
  [k \in 1..(NText + NScore) |->
     IF k <= NText THEN TextRow(k - 1) ELSE ScoreRow(k - 1 - NText)]

\* AUTOINCREMENT: the i-th stored row has the i-th id.
WithIds(rows) == [i \in 1..Len(rows) |-> [rows[i] EXCEPT !.id = i]]

\* The tables of m rows, listed up to the order of their rows: that order
\* decides nothing but the order of ties, which the plan chooses (see Scans).
SortedIndexes(m) ==
  { f \in [1..m -> 1..Len(RowPool)] : \A i \in 1..(m - 1) : f[i] <= f[i + 1] }

TablesOf(m) ==
  { WithIds([i \in 1..m |-> RowPool[ix[i]]]) : ix \in SortedIndexes(m) }

TablesUpTo(n) == UNION { TablesOf(m) : m \in 0..n }

(***************************************************************************)
(* SQL statements: the text is a sequence of fragments, the bound          *)
(* parameters a sequence of values.  The fragments named here are the SQL  *)
(* the store understands.                                                  *)
(***************************************************************************)
SelectFrom == "SELECT ... FROM content"
SelectFromSearch ==
  "SELECT ... FROM content WHERE ( category LIKE ? OR source LIKE ? OR content_type LIKE ? OR difficulty_level LIKE ? )"
Where == " WHERE "
And == " AND "
CategoryEq == "category = ?"
SourceEq == "source = ?"
ContentTypeEq == "content_type = ?"
DifficultyEq == "difficulty_level = ?"
OrderBy == " ORDER BY engagement_score DESC, trending_score DESC"
OrderByEngagement == " ORDER BY engagement_score DESC"
DeleteFrom == "DELETE FROM content"
CountAll == "SELECT COUNT(*) as count FROM content"
AvgTimeSpent == "SELECT AVG(time_spent_minutes) as avg FROM content"
SumUpvotes == "SELECT SUM(upvotes) as total FROM content"
SumViews == "SELECT SUM(views) as total FROM content"
DistinctCategory == "SELECT DISTINCT category FROM content"
DistinctSource == "SELECT DISTINCT source FROM content"
OrderByCategory == " ORDER BY category"
OrderBySource == " ORDER BY source"
LimitClause == " LIMIT ?"
OffsetClause == " OFFSET ?"

All == <<"A", "l", "l">>

TextParam(t) == [type |-> "text", text |-> t, n |-> 0]
IntParam(n) == [type |-> "int", text |-> <<>>, n |-> n]

\* conditions.join(' AND ')
RECURSIVE JoinAnd(_)
JoinAnd(conds) ==
  IF Len(conds) <= 1 THEN conds
  ELSE <<Head(conds), And>> \o JoinAnd(Tail(conds))

\* filters.x && filters.x !== 'All'
IsFilter(f) == f.defined /\ f.text # <<>> /\ f.text # All

\* filters.x, as a condition
IsSet(f) == f.defined /\ f.text # <<>>

\* a plausible slip: the tie-break on trending_score left out
OrderByEngagementOnly == OrderByEngagement

\* sql += ' ORDER BY engagement_score DESC, trending_score DESC'
OrderByClause == " ORDER BY engagement_score DESC, trending_score DESC"

\* the characters of a text as one string
RECURSIVE Joined(_)
Joined(t) == IF t = <<>> THEN "" ELSE Head(t) \o Joined(Tail(t))

\* a plausible slip: the category written into the SQL text
ConditionsInline(filters) ==
  [sql |-> IF IsFilter(filters.category)
           THEN <<"category = '" \o Joined(filters.category.text) \o "'">>
           ELSE <<>>,
   params |-> <<>>]

\* the filters of getAllContent: conditions and their parameters
Conditions(filters) ==
  [sql |-> (IF IsFilter(filters.category) THEN <<CategoryEq>> ELSE <<>>)
           \o (IF IsFilter(filters.source) THEN <<SourceEq>> ELSE <<>>)
           \o (IF IsSet(filters.contentType) THEN <<ContentTypeEq>> ELSE <<>>)
           \o (IF IsSet(filters.difficultyLevel) THEN <<DifficultyEq>> ELSE <<>>),
   params |-> (IF IsFilter(filters.category)
                 THEN <<TextParam(filters.category.text)>> ELSE <<>>)
              \o (IF IsFilter(filters.source)
                    THEN <<TextParam(filters.source.text)>> ELSE <<>>)
              \o (IF IsSet(filters.contentType)
                    THEN <<TextParam(filters.contentType.text)>> ELSE <<>>)
              \o (IF IsSet(filters.difficultyLevel)
                    THEN <<TextParam(filters.difficultyLevel.text)>> ELSE <<>>)]

\* a plausible slip: OFFSET applied whether or not a limit is given
PagingUnpaired(filters) ==
  IF TruthyNum(filters.offset)
  THEN [sql |-> <<LimitClause, OffsetClause>>,
        params |-> <<IntParam(IF TruthyNum(filters.limit)
                              THEN filters.limit.n ELSE 0 - 1),
                     IntParam(filters.offset.n)>>]
  ELSE IF TruthyNum(filters.limit)
       THEN [sql |-> <<LimitClause>>, params |-> <<IntParam(filters.limit.n)>>]
       ELSE [sql |-> <<>>, params |-> <<>>]

\* the pagination of getAllContent: OFFSET is added inside `if (filters.limit)`
Paging(filters) ==
  IF TruthyNum(filters.limit)
  THEN IF TruthyNum(filters.offset)
       THEN [sql |-> <<LimitClause, OffsetClause>>,
             params |-> <<IntParam(filters.limit.n), IntParam(filters.offset.n)>>]
       ELSE [sql |-> <<LimitClause>>, params |-> <<IntParam(filters.limit.n)>>]
  ELSE [sql |-> <<>>, params |-> <<>>]

\* a plausible slip: a statement that writes
ClearStatement(filters) == [sql |-> <<DeleteFrom>>, params |-> <<>>]

\* getAllContent: the statement it prepares and the parameters it binds
getAllContentStatement(filters) ==
  [sql |-> <<SelectFrom>>
           \o (IF Conditions(filters).sql # <<>>
                 THEN <<Where>> \o JoinAnd(Conditions(filters).sql) ELSE <<>>)
           \o <<OrderByClause>> \o Paging(filters).sql,
   params |-> Conditions(filters).params \o Paging(filters).params]

\* `%${query}%`
Wrap(query) == <<"%">> \o query \o <<"%">>

\* searchContent: the statement it prepares and the parameters it binds
searchContentStatement(query, filters) ==
  [sql |-> <<SelectFromSearch>>
           \o (IF IsFilter(filters.category) THEN <<And, CategoryEq>> ELSE <<>>)
           \o (IF IsFilter(filters.source) THEN <<And, SourceEq>> ELSE <<>>)
           \o <<OrderByClause>>,
   params |-> <<TextParam(Wrap(query)), TextParam(Wrap(query)),
                TextParam(Wrap(query)), TextParam(Wrap(query))>>
              \o (IF IsFilter(filters.category)
                    THEN <<TextParam(filters.category.text)>> ELSE <<>>)
              \o (IF IsFilter(filters.source)
                    THEN <<TextParam(filters.source.text)>> ELSE <<>>)]

(***************************************************************************)
(* The store: what SQLite answers to a prepared statement.                 *)
(***************************************************************************)
ParamCount(fragment) ==
  IF fragment = SelectFromSearch THEN 4
  ELSE IF fragment \in {CategoryEq, SourceEq, ContentTypeEq, DifficultyEq,
                        LimitClause, OffsetClause} THEN 1
  ELSE 0

\* the number of ? before fragment i of the text
RECURSIVE ParamsBefore(_, _)
ParamsBefore(sql, i) ==
  IF i <= 1 THEN 0 ELSE ParamsBefore(sql, i - 1) + ParamCount(sql[i - 1])

ColumnOf(row, fragment) ==
  CASE fragment = CategoryEq -> row.category
    [] fragment = SourceEq -> row.source
    [] fragment = ContentTypeEq -> row.content_type
    [] fragment = DifficultyEq -> row.difficulty_level

\* the WHERE clause: every condition of the text holds of the row.  Text
\* equality is exact (BINARY collation); the search group is an OR of LIKEs.
WhereHolds(row, stmt) ==
  \A i \in 1..Len(stmt.sql) :
    LET k == ParamsBefore(stmt.sql, i) IN
    /\ stmt.sql[i] \in {CategoryEq, SourceEq, ContentTypeEq, DifficultyEq}
         => ColumnOf(row, stmt.sql[i]) = stmt.params[k + 1].text
    /\ stmt.sql[i] = SelectFromSearch
         => \/ Like(row.category, stmt.params[k + 1].text)
            \/ Like(row.source, stmt.params[k + 2].text)
            \/ Like(row.content_type, stmt.params[k + 3].text)
            \/ Like(row.difficulty_level, stmt.params[k + 4].text)

\* a sorts strictly before b under the ORDER BY fragment
Before(a, b, orderBy) ==
  IF orderBy = OrderBy
  THEN \/ a.engagement_score > b.engagement_score
       \/ /\ a.engagement_score = b.engagement_score
          /\ a.trending_score > b.trending_score
  ELSE orderBy = OrderByEngagement /\ a.engagement_score > b.engagement_score

\* x put behind the rows of the sorted sequence that do not sort after it
InsertRow(sorted, x, orderBy) ==
  LET k == Cardinality({ i \in 1..Len(sorted) : ~Before(x, sorted[i], orderBy) })
  IN SubSeq(sorted, 1, k) \o <<x>> \o SubSeq(sorted, k + 1, Len(sorted))

RECURSIVE SortRows(_, _)
SortRows(rows, orderBy) ==
  IF rows = <<>> THEN <<>>
  ELSE InsertRow(SortRows(SubSeq(rows, 1, Len(rows) - 1), orderBy),
                 rows[Len(rows)], orderBy)

\* The orders in which a plan may visit the rows of a table of n rows: by
\* ascending rowid (a table scan feeding a sorter) or by descending rowid (an
\* index walked backwards).  SQL leaves the order of rows that tie on every
\* ORDER BY key to the plan; the visiting order is what decides it.
Scans(n) == { [i \in 1..n |-> i], [i \in 1..n |-> n + 1 - i] }

HasFragment(sql, fragment) == \E i \in 1..Len(sql) : sql[i] = fragment

ParamOf(stmt, fragment) ==
  LET i == CHOOSE j \in 1..Len(stmt.sql) : stmt.sql[j] = fragment
  IN stmt.params[ParamsBefore(stmt.sql, i) + 1].n

\* LIMIT n OFFSET k: a negative n is no limit, a negative k is 0
Page(rows, stmt) ==
  LET k == IF HasFragment(stmt.sql, OffsetClause)
           THEN ParamOf(stmt, OffsetClause) ELSE 0
      from == IF k < 0 THEN 0 ELSE k
      rest == SubSeq(rows, from + 1, Len(rows))
      n == IF HasFragment(stmt.sql, LimitClause)
           THEN ParamOf(stmt, LimitClause) ELSE 0 - 1
  IN IF n < 0 \/ n >= Len(rest) THEN rest ELSE SubSeq(rest, 1, n)

\* the table a statement leaves behind: DELETE FROM content empties it,
\* a SELECT leaves it as it was
tableAfter(stmt, table) ==
  IF HasFragment(stmt.sql, DeleteFrom) THEN <<>> ELSE table

\* stmt.all(...params) on the table, its rows visited in the order scan
stmtAll(stmt, table, scan) ==
  LET visited == [i \in 1..Len(table) |-> table[scan[i]]]
      matching == SelectSeq(visited, LAMBDA r : WhereHolds(r, stmt))
      orderBy == IF HasFragment(stmt.sql, OrderBy) THEN OrderBy
                 ELSE IF HasFragment(stmt.sql, OrderByEngagement)
                      THEN OrderByEngagement ELSE ""
  IN Page(SortRows(matching, orderBy), stmt)

\* The characters of the model in the order of their codes; BINARY collation
\* compares text code by code.
Alphabet ==
  <<" ", "%", "0", "1", "2", "3", "4", "5", "6", "7", "8", "9",
    "A", "B", "F", "I", "S", "T", "V", "_",
    "a", "d", "e", "f", "g", "i", "t", "u", "x", "z">>

CharCode(c) == CHOOSE i \in 1..Len(Alphabet) : Alphabet[i] = c

RECURSIVE TextBefore(_, _)
TextBefore(a, b) ==
  IF b = <<>> THEN FALSE
  ELSE IF a = <<>> THEN TRUE
  ELSE IF Head(a) # Head(b) THEN CharCode(Head(a)) < CharCode(Head(b))
  ELSE TextBefore(Tail(a), Tail(b))

RECURSIVE SumOf(_)
SumOf(numbers) ==
  IF numbers = <<>> THEN 0 ELSE Head(numbers) + SumOf(Tail(numbers))

\* stmt.get() of an aggregate: COUNT(*) of no row is 0, SUM and AVG of no
\* row are NULL; AVG is left as the fraction n / d
stmtGet(stmt, table) ==
  LET column(name) == [i \in 1..Len(table) |-> table[i][name]]
      sum(name) == IF table = <<>> THEN NumNull ELSE Num(SumOf(column(name)))
  IN CASE HasFragment(stmt.sql, CountAll) -> Num(Len(table))
       [] HasFragment(stmt.sql, SumUpvotes) -> sum("upvotes")
       [] HasFragment(stmt.sql, SumViews) -> sum("views")
       [] HasFragment(stmt.sql, AvgTimeSpent) ->
            IF table = <<>> THEN NumNull
            ELSE [kind |-> "avg", n |-> SumOf(column("time_spent_minutes")),
                  d |-> Len(table)]

\* the values of a sequence, each once, at its first place
RECURSIVE Distinct(_)
Distinct(values) ==
  IF values = <<>> THEN <<>>
  ELSE LET front == Distinct(SubSeq(values, 1, Len(values) - 1))
           last == values[Len(values)]
       IN IF \E i \in 1..Len(front) : front[i] = last THEN front
          ELSE Append(front, last)

RECURSIVE SortText(_)
SortText(values) ==
  IF values = <<>> THEN <<>>
  ELSE LET front == SortText(SubSeq(values, 1, Len(values) - 1))
           x == values[Len(values)]
           k == Cardinality({ i \in 1..Len(front) : ~TextBefore(x, front[i]) })
       IN SubSeq(front, 1, k) \o <<x>> \o SubSeq(front, k + 1, Len(front))

\* stmt.all() of SELECT DISTINCT <column> ... [ORDER BY <column>]
stmtColumn(stmt, table, scan) ==
  LET name == IF HasFragment(stmt.sql, DistinctCategory)
              THEN "category" ELSE "source"
      found == Distinct([i \in 1..Len(table) |-> table[scan[i]][name]])
  IN IF HasFragment(stmt.sql, OrderByCategory)
        \/ HasFragment(stmt.sql, OrderBySource)
     THEN SortText(found) ELSE found

(***************************************************************************)
(* lib/database: the connection and the two queries.  env is what a call   *)
(* finds: the table, the module's dbInstance, the fault the store answers  *)
(* with ("none", "open", "pragma" or "query") and the plan's visiting order.*)
(***************************************************************************)
Faults == {"none", "open", "pragma", "query"}

\* The store fails the at-th call of a request with the fault: a query
\* fails whenever it is run, opening and the pragmas fail only when the call
\* opens a connection, which only the first call of a request can do.
FaultMet(fault, at, instance) ==
  \/ fault = "query"
  \/ fault \in {"open", "pragma"} /\ at = 1 /\ instance = "null"

\* a plausible slip: the check of dbInstance left out
getDatabaseAlwaysOpens(env) ==
  [threw |-> FALSE, dbInstance |-> "configured", opened |-> 1]

\* getDatabase: [threw, dbInstance, opened].  new Database(...) is assigned
\* to dbInstance before the pragmas run; opened counts the connections the
\* call opened.
getDatabase(env) ==
  IF env.dbInstance = "null"
  THEN IF env.fault = "open"
       THEN [threw |-> TRUE, dbInstance |-> "null", opened |-> 0]
       ELSE IF env.fault = "pragma"
            THEN [threw |-> TRUE, dbInstance |-> "unconfigured", opened |-> 1]
            ELSE [threw |-> FALSE, dbInstance |-> "configured", opened |-> 1]
  ELSE [threw |-> FALSE, dbInstance |-> env.dbInstance, opened |-> 0]

\* a plausible slip: a failure of the store answered with no rows
RunQueryEmptyOnFailure(stmt, env) ==
  [threw |-> FALSE, data |-> <<>>, content |-> env.content,
   dbInstance |-> getDatabase(env).dbInstance,
   opened |-> getDatabase(env).opened]

\* db.prepare(sql) and stmt.all(...params) inside the try block
RunQuery(stmt, env) ==
  LET db == getDatabase(env) IN
  IF db.threw \/ env.fault = "query"
  THEN [threw |-> TRUE, data |-> <<>>, content |-> env.content,
        dbInstance |-> db.dbInstance, opened |-> db.opened]
  ELSE [threw |-> FALSE, data |-> stmtAll(stmt, env.content, env.scan),
        content |-> tableAfter(stmt, env.content),
        dbInstance |-> db.dbInstance, opened |-> db.opened]

getAllContent(filters, env) == RunQuery(getAllContentStatement(filters), env)

searchContent(query, filters, env) ==
  RunQuery(searchContentStatement(query, filters), env)

(***************************************************************************)
(* lib/database: the statistics and the two lists of distinct values.      *)
(***************************************************************************)
Statement(sql) == [sql |-> sql, params |-> <<>>]

totalContentStatement == Statement(<<CountAll>>)
avgTimeSpentStatement == Statement(<<AvgTimeSpent>>)
totalUpvotesStatement == Statement(<<SumUpvotes>>)
\* a plausible slip: the views summed over the wrong column
totalViewsWrongColumn == Statement(<<SumUpvotes>>)
totalViewsStatement == Statement(<<SumViews>>)
\* a plausible slip: ORDER BY left out
categoriesUnordered == Statement(<<DistinctCategory>>)
categoriesStatement == Statement(<<DistinctCategory, OrderByCategory>>)
sourcesStatement == Statement(<<DistinctSource, OrderBySource>>)

\* Math.round(avg * 100) / 100, in hundredths of a minute: null * 100 is 0,
\* and Math.round rounds a half upwards
Round2(avg) ==
  IF avg.kind = "null" THEN Num(0)
  ELSE Num((2 * avg.n + avg.d) \div (2 * avg.d))

NoStats ==
  [totalContent |-> NumNull, avgTimeSpent |-> NumNull,
   totalUpvotes |-> NumNull, totalViews |-> NumNull]

\* getContentStats: one getDatabase, then four statements inside the try
getContentStats(env) ==
  LET db == getDatabase(env)
      t1 == tableAfter(totalContentStatement, env.content)
      t2 == tableAfter(avgTimeSpentStatement, t1)
      t3 == tableAfter(totalUpvotesStatement, t2)
      t4 == tableAfter(totalViewsStatement, t3)
  IN IF db.threw \/ env.fault = "query"
     THEN [threw |-> TRUE, stats |-> NoStats, content |-> env.content,
           dbInstance |-> db.dbInstance, opened |-> db.opened]
     ELSE [threw |-> FALSE,
           stats |->
             [totalContent |-> stmtGet(totalContentStatement, env.content),
              avgTimeSpent |-> Round2(stmtGet(avgTimeSpentStatement, t1)),
              totalUpvotes |-> stmtGet(totalUpvotesStatement, t2),
              totalViews |-> stmtGet(totalViewsStatement, t3)],
           content |-> t4, dbInstance |-> db.dbInstance,
           opened |-> db.opened]

\* db.prepare(sql).all() and result.map(row => row.<column>)
RunList(stmt, env) ==
  LET db == getDatabase(env) IN
  IF db.threw \/ env.fault = "query"
  THEN [threw |-> TRUE, list |-> <<>>, content |-> env.content,
        dbInstance |-> db.dbInstance, opened |-> db.opened]
  ELSE [threw |-> FALSE, list |-> stmtColumn(stmt, env.content, env.scan),
        content |-> tableAfter(stmt, env.content),
        dbInstance |-> db.dbInstance, opened |-> db.opened]

getCategories(env) == RunList(categoriesStatement, env)

getSources(env) == RunList(sourcesStatement, env)

\* closeDatabase: [dbInstance, closed]
closeDatabase(instance) ==
  IF instance # "null" THEN [dbInstance |-> "null", closed |-> 1]
  ELSE [dbInstance |-> instance, closed |-> 0]

(***************************************************************************)
(* The statistics route.  The three calls of the array literal run in      *)
(* order; the first that throws ends the try block.  env.at names the      *)
(* call the store's fault meets.                                           *)
(***************************************************************************)
CallEnv(env, k, table, instance) ==
  [content |-> table, dbInstance |-> instance,
   fault |-> IF env.at = k THEN env.fault ELSE "none", scan |-> env.scan]

StatsRoute(env) ==
  LET a == getContentStats(CallEnv(env, 1, env.content, env.dbInstance))
      b == getCategories(CallEnv(env, 2, a.content, a.dbInstance))
      c == getSources(CallEnv(env, 3, b.content, b.dbInstance))
      failed(res, n) ==
        [status |-> 500, error |-> TRUE, stats |-> NoStats,
         categories |-> <<>>, sources |-> <<>>, content |-> res.content,
         dbInstance |-> res.dbInstance, opened |-> n]
  IN IF a.threw THEN failed(a, a.opened)
     ELSE IF b.threw THEN failed(b, a.opened + b.opened)
     ELSE IF c.threw THEN failed(c, a.opened + b.opened + c.opened)
     ELSE [status |-> 200, error |-> FALSE, stats |-> a.stats,
           categories |-> b.list, sources |-> c.list, content |-> c.content,
           dbInstance |-> c.dbInstance,
           opened |-> a.opened + b.opened + c.opened]

(***************************************************************************)
(* The data route.                                                         *)
(***************************************************************************)
\* contentType || undefined
OrUndefined(t) == IF t # <<>> THEN Defined(t) ELSE Undefined

\* searchParams.get(name) ? parseInt(searchParams.get(name)) : undefined
ParseParam(v) == IF Truthy(v) THEN parseInt(v.text) ELSE NumUndefined

\* the filters object the route prepares
RouteFilters(params) ==
  [category |-> Defined(OrElse(params.category, All)),
   source |-> Defined(OrElse(params.source, All)),
   contentType |-> OrUndefined(OrElse(params.contentType, <<>>)),
   difficultyLevel |-> OrUndefined(OrElse(params.difficultyLevel, <<>>)),
   limit |-> ParseParam(params.limit),
   offset |-> ParseParam(params.offset)]

RouteSearch(params) == OrElse(params.search, <<>>)

\* if (search.trim())
IsSearch(params) == Trim(RouteSearch(params)) # <<>>

\* the object the route answers for one row
Transform(item) ==
  [Category |-> item.category, URL |-> item.url, Source |-> item.source,
   Time_Spent_Minutes |-> item.time_spent_minutes, Upvotes |-> item.upvotes,
   Views |-> item.views, Engagement_Score |-> item.engagement_score,
   Content_Type |-> item.content_type,
   Difficulty_Level |-> item.difficulty_level,
   Trending_Score |-> item.trending_score, id |-> item.id]

\* GET /api/data: [status, error, body] and what the call left behind
DataRoute(params, env) ==
  LET filters == RouteFilters(params)
      res == IF IsSearch(params)
             THEN searchContent(RouteSearch(params), filters, env)
             ELSE getAllContent(filters, env)
  IN IF res.threw
     THEN [status |-> 500, error |-> TRUE, body |-> <<>>,
           content |-> res.content, dbInstance |-> res.dbInstance,
           opened |-> res.opened]
     ELSE [status |-> 200, error |-> FALSE,
           body |-> [i \in 1..Len(res.data) |-> Transform(res.data[i])],
           content |-> res.content, dbInstance |-> res.dbInstance,
           opened |-> res.opened]

(***************************************************************************)
(* Requests.                                                               *)
(***************************************************************************)
Params(search, category, source, contentType, difficultyLevel, limit, offset) ==
  [search |-> search, category |-> category, source |-> source,
   contentType |-> contentType, difficultyLevel |-> difficultyLevel,
   limit |-> limit, offset |-> offset]

NoParams == Params(Null, Null, Null, Null, Null, Null, Null)

\* the decimal text of a one-digit number
DigitText(n) == <<Digits[n + 1]>>

fa == <<"f", "a">>

\* search text and equality filters in every combination, no paging
FilterRequests ==
  { Params(s, c, so, ct, dl, Null, Null) :
      s \in {Null, Str(fa), Str(<<"_">>)},
      c \in {Null, Str(All), Str(Fa)},
      so \in {Null, Str(All), Str(Ig)},
      ct \in {Null, Str(All), Str(Vi)},
      dl \in {Null, Str(All), Str(Ad)} }

\* search texts with wildcards, white space and no match
SearchRequests ==
  { Params(s, Null, Null, Null, Null, Null, Null) :
      s \in {Str(<<"%">>), Str(<<"f", "_">>), Str(<<" ", "f", "a">>),
             Str(<<" ">>), Str(<<"z">>), Str(<<>>)} }

\* limit and offset, with and without search text and a filter
PagingRequests ==
  { Params(s, Null, Null, ct, Null, l, o) :
      s \in {Null, Str(fa)},
      ct \in {Null, Str(Vi)},
      l \in {Null} \cup { Str(DigitText(n)) : n \in 0..MaxLimit },
      o \in {Null} \cup { Str(DigitText(n)) : n \in 0..MaxOffset } }

Requests == FilterRequests \cup SearchRequests \cup PagingRequests

\* the requests made while the store may fail
FaultRequests ==
  { Params(s, Null, so, ct, Null, l, Null) :
      s \in {Null, Str(fa), Str(<<"z">>)},
      so \in {Null, Str(Ig)},
      ct \in {Null, Str(Vi), Str(Ad)},
      l \in {Null, Str(DigitText(1))} }

(***************************************************************************)
(* The state machine.                                                      *)
(***************************************************************************)
NoResponse ==
  [route |-> "none", status |-> 0, error |-> FALSE, body |-> <<>>,
   stats |-> NoStats, categories |-> <<>>, sources |-> <<>>]

NoMigration == [pc |-> "idle", csv |-> <<>>, before |-> <<>>]

\* the page before it is mounted
NotMounted ==
  [mounted |-> FALSE, searchTerm |-> <<>>, selectedCategory |-> All,
   selectedSource |-> All, isLoading |-> TRUE, data |-> <<>>,
   filteredData |-> <<>>, categories |-> <<>>, sources |-> <<>>,
   latestFailed |-> FALSE]

\* no withConcurrency call is under way
NoPool ==
  [items |-> <<>>, limit |-> 0, index |-> 0, results |-> <<>>,
   workers |-> <<>>, calls |-> <<>>, returned |-> FALSE]

\* no page is open and no script runs
NoClients ==
  /\ dashboard = NotMounted
  /\ inFlight = {}
  /\ issued = 0
  /\ csvRows = <<>>
  /\ phase = "idle"
  /\ pool = NoPool
  /\ metadataResults = <<>>
  /\ fetched = {}
  /\ output = <<>>

\* the server has started on the table and has answered nothing yet
Started ==
  /\ NoClients
  /\ dbInstance = "null"
  /\ request = NoParams
  /\ storeFault = "none"
  /\ response = NoResponse
  /\ connections = 0
  /\ served = 0
  /\ sequence = Len(content)
  /\ migration = NoMigration

\* after the bulk load and before the first request
Init ==
  /\ content \in TablesUpTo(MaxRows)
  /\ Started

\* no request is being handled
Idle == response = NoResponse

\* the route handles one request, from the URL to the JSON it answers
GET(params, fault, scan) ==
  /\ Idle
  /\ \E r \in { DataRoute(params, [content |-> content,
                                     dbInstance |-> dbInstance,
                                     fault |-> fault, scan |-> scan]) } :
        /\ response' = [NoResponse EXCEPT !.route = "data",
                                          !.status = r.status,
                                          !.error = r.error, !.body = r.body]
        /\ content' = r.content
        /\ dbInstance' = r.dbInstance
        /\ connections' = connections + r.opened
        /\ storeFault' = IF FaultMet(fault, 1, dbInstance) THEN fault
                          ELSE "none"
  /\ request' = params
  /\ UNCHANGED <<sequence, migration>>
  /\ UNCHANGED <<pageVars, scriptVars>>

\* the statistics route handles one request
GETStats(fault, at, scan) ==
  /\ Idle
  /\ \E r \in { StatsRoute([content |-> content, dbInstance |-> dbInstance,
                             fault |-> fault, at |-> at, scan |-> scan]) } :
        /\ response' = [NoResponse EXCEPT !.route = "stats",
                                          !.status = r.status,
                                          !.error = r.error,
                                          !.stats = r.stats,
                                          !.categories = r.categories,
                                          !.sources = r.sources]
        /\ content' = r.content
        /\ dbInstance' = r.dbInstance
        /\ connections' = connections + r.opened
        /\ storeFault' = IF FaultMet(fault, at, dbInstance) THEN fault
                          ELSE "none"
  /\ request' = NoParams
  /\ UNCHANGED <<served, sequence, migration>>
  /\ UNCHANGED <<pageVars, scriptVars>>

\* closeDatabase, called between two requests
Close ==
  /\ Idle
  /\ \E r \in { closeDatabase(dbInstance) } :
        /\ r.closed = 1
        /\ dbInstance' = r.dbInstance
        /\ connections' = connections - r.closed
  /\ UNCHANGED <<content, request, storeFault, response, served, sequence,
                 migration>>
  /\ UNCHANGED <<pageVars, scriptVars>>

\* the response leaves; the server waits for the next request
Send ==
  /\ response # NoResponse
  /\ response' = NoResponse
  /\ request' = NoParams
  /\ storeFault' = "none"
  /\ UNCHANGED <<content, dbInstance, connections, served, sequence,
                 migration>>
  /\ UNCHANGED <<pageVars, scriptVars>>

Next ==
  \/ /\ Idle
     /\ \E params \in Requests, scan \in Scans(Len(content)) :
          GET(params, "none", scan) /\ UNCHANGED served
  \/ Send

Spec == Init /\ [][Next]_vars

NextFault ==
  \/ /\ Idle
     /\ \E params \in FaultRequests, fault \in Faults,
           scan \in Scans(Len(content)) :
          GET(params, fault, scan) /\ UNCHANGED served
  \/ Send

SpecFault == Init /\ [][NextFault]_vars

\* the example of the spec: a dataset of three records, asked by source and
\* by search text
InitExample ==
  /\ content \in TablesOf(3)
  /\ Started

ExampleRequests ==
  { Params(s, Null, so, Null, Null, Null, Null) :
      s \in {Null, Str(fa), Str(Fa)},
      so \in {Null, Str(Ig), Str(Tt)} }

NextExample ==
  \/ /\ Idle
     /\ \E params \in ExampleRequests, scan \in Scans(Len(content)) :
          GET(params, "none", scan) /\ UNCHANGED served
  \/ Send

SpecExample == InitExample /\ [][NextExample]_vars

\* requests whose limit and offset are numbers, are not numbers, or are
\* missing, with filters that are values, 'All', or missing
ParamRequests ==
  { Params(s, c, Null, ct, Null, l, o) :
      s \in {Null, Str(fa)},
      c \in {Null, Str(All), Str(Fa), Str(St)},
      ct \in {Null, Str(Vi)},
      l \in {Null, Str(<<"0">>), Str(<<"1">>), Str(<<"x">>), Str(<<"-", "1">>)},
      o \in {Null, Str(<<"0">>), Str(<<"1">>), Str(<<"x">>)} }

\* the empty table and the tables of one record of each category and source
InitParams ==
  /\ content \in TablesOf(0) \cup { WithIds(<<TextRow(k)>>) : k \in 0..3 }
  /\ Started

NextParams ==
  \/ /\ Idle
     /\ \E params \in ParamRequests, scan \in Scans(Len(content)) :
          GET(params, "none", scan) /\ UNCHANGED served
  \/ Send

SpecParams == InitParams /\ [][NextParams]_vars

(***************************************************************************)
(* The migration script: the CSV is read and parsed, the table is cleared, *)
(* and the parsed records are inserted in one transaction.                 *)
(***************************************************************************)
\* String.split(','): the pieces of a text between its commas
RECURSIVE SplitComma(_, _)
SplitComma(t, piece) ==
  IF t = <<>> THEN <<piece>>
  ELSE IF Head(t) = "," THEN <<piece>> \o SplitComma(Tail(t), <<>>)
  ELSE SplitComma(Tail(t), Append(piece, Head(t)))

\* parseFloat; the numbers of the CSVs of the model have no fraction and no
\* exponent, where parseFloat reads what parseInt reads
parseFloat(t) == parseInt(t)

\* x || 0
OrZero(x) == IF TruthyNum(x) THEN x.n ELSE 0

\* the record parseCSV makes of the values of one line
RecordOf(values) ==
  [id |-> 0, category |-> values[1], url |-> values[2], source |-> values[3],
   time_spent_minutes |-> OrZero(parseFloat(values[4])),
   upvotes |-> OrZero(parseInt(values[5])),
   views |-> OrZero(parseInt(values[6])),
   engagement_score |-> OrZero(parseFloat(values[7])),
   content_type |-> values[8], difficulty_level |-> values[9],
   trending_score |-> OrZero(parseFloat(values[10]))]

\* parseCSV on the lines of the file: the first is the header; a line that
\* is blank after trim, or has fewer than 10 values, is skipped
RECURSIVE parseLines(_)
parseLines(lines) ==
  IF lines = <<>> THEN <<>>
  ELSE LET line == Trim(Head(lines))
           values == SplitComma(line, <<>>)
       IN (IF line # <<>> /\ Len(values) >= 10 THEN <<RecordOf(values)>>
           ELSE <<>>)
          \o parseLines(Tail(lines))

parseCSV(lines) == IF lines = <<>> THEN <<>> ELSE parseLines(Tail(lines))

\* a plausible slip: the table is not cleared
clearNothing == Statement(<<CountAll>>)

\* db.exec('DELETE FROM content')
clearStatement == Statement(<<DeleteFrom>>)

\* insertMany(data): every record gets the next id of AUTOINCREMENT
insertMany(data, seq) ==
  [i \in 1..Len(data) |-> [data[i] EXCEPT !.id = seq + i]]

\* the lines of the model's CSV files
RECURSIVE JoinComma(_)
JoinComma(values) ==
  IF Len(values) <= 1 THEN (IF values = <<>> THEN <<>> ELSE values[1])
  ELSE values[1] \o <<",">> \o JoinComma(Tail(values))

HeaderLine ==
  JoinComma(<<Fa, Url, Ig, <<"t">>, <<"u">>, <<"V">>, <<"e">>, Vi, Be, <<"t">>>>)

\* a record of the data model; a line whose numbers are not numbers, are
\* missing or are out of range; a line of too few values; a blank line; a
\* line without category and with negative upvotes
LinePool ==
  <<JoinComma(<<Fa, Url, Ig, <<"5">>, <<"1">>, <<"2">>, <<"1">>, Vi, Be, <<"0">>>>),
    JoinComma(<<St, Url, Tt, <<"x">>, <<>>, <<"3">>, <<"9">>, Vi, Ad, <<"1">>>>)
      \o <<" ">>,
    JoinComma(<<St, Url, Tt>>),
    <<" ">>,
    JoinComma(<<<<>>, Url, Ig, <<"5">>, <<"-", "1">>, <<"2">>, <<"1">>, Vi, Be,
                <<"0">>>>)>>

CsvFiles ==
  UNION { { <<HeaderLine>> \o [i \in 1..m |-> LinePool[ix[i]]] :
              ix \in [1..m -> 1..Len(LinePool)] } : m \in 0..MaxLines }

\* the script up to the DELETE: the file is read and parsed, the table is
\* cleared (DELETE is committed on its own)
MigrateClear(csv) ==
  /\ migration.pc = "idle"
  /\ sequence + MaxLines <= MaxSequence
  /\ migration' = [pc |-> "cleared", csv |-> csv, before |-> content]
  /\ content' = tableAfter(clearStatement, content)
  /\ UNCHANGED <<dbInstance, request, storeFault, response, connections,
                 served, sequence>>
  /\ UNCHANGED <<pageVars, scriptVars>>

\* insertData(data): the transaction commits every row or, when an insert
\* throws, none
MigrateInsert(fails) ==
  /\ migration.pc = "cleared"
  /\ IF fails
     THEN /\ migration' = [migration EXCEPT !.pc = "failed"]
          /\ UNCHANGED <<content, sequence>>
     ELSE /\ migration' = [migration EXCEPT !.pc = "done"]
          /\ content' = content
                         \o insertMany(parseCSV(migration.csv), sequence)
          /\ sequence' = sequence + Len(parseCSV(migration.csv))
  /\ UNCHANGED <<dbInstance, request, storeFault, response, connections,
                 served>>
  /\ UNCHANGED <<pageVars, scriptVars>>

\* the script has ended; it may be run again
MigrateExit ==
  /\ migration.pc \in {"done", "failed"}
  /\ migration' = NoMigration
  /\ UNCHANGED <<content, dbInstance, request, storeFault, response,
                 connections, served, sequence>>
  /\ UNCHANGED <<pageVars, scriptVars>>

MigrateRequests ==
  { Params(s, Null, Null, Null, Null, Null, Null) : s \in {Null, Str(fa)} }

InitMigrate ==
  /\ content \in TablesOf(0) \cup { WithIds(<<TextRow(k)>>) : k \in 0..3 }
  /\ Started

\* the script runs next to the server
NextMigrate ==
  \/ \E csv \in CsvFiles : MigrateClear(csv)
  \/ \E fails \in BOOLEAN : MigrateInsert(fails)
  \/ MigrateExit
  \/ /\ Idle
     /\ \E params \in MigrateRequests, scan \in Scans(Len(content)) :
          GET(params, "none", scan) /\ UNCHANGED served
  \/ Send

SpecMigrate == InitMigrate /\ [][NextMigrate]_vars

(***************************************************************************)
(* One client and its window of an hour.  The route keeps no count of its  *)
(* own; served counts the requests it answers the client with data or      *)
(* with a server error, that is, without turning them away.                *)
(***************************************************************************)
\* 100 requests per hour
RateLimit == 100

RateRequests ==
  { Params(s, Null, Null, Null, Null, Null, Null) : s \in {Null, Str(fa)} }

InitRate ==
  /\ content \in TablesOf(0) \cup { WithIds(<<TextRow(0)>>) }
  /\ Started

\* the route answers a request of the client
GETFromClient(params, scan) ==
  /\ served <= RateLimit
  /\ GET(params, "none", scan)
  /\ served' = IF response'.status \in {200, 500} THEN served + 1 ELSE served

\* the hour of the window is over
WindowEnds ==
  /\ Idle
  /\ served > 0
  /\ served' = 0
  /\ UNCHANGED <<content, dbInstance, request, storeFault, response,
                 connections, sequence, migration>>
  /\ UNCHANGED <<pageVars, scriptVars>>

NextRate ==
  \/ \E params \in RateRequests, scan \in Scans(Len(content)) :
       GETFromClient(params, scan)
  \/ WindowEnds
  \/ Send

SpecRate == InitRate /\ [][NextRate]_vars

(***************************************************************************)
(* The dashboard page.  fetchData and fetchMetadata run up to their fetch  *)
(* in the step that calls them; the rest of each runs when its response    *)
(* arrives.  The server answers a request in the step that delivers the    *)
(* response, so that responses arrive in any order.                        *)
(***************************************************************************)
\* the URLSearchParams fetchData builds
PageParams(search, category, source) ==
  Params(IF Trim(search) # <<>> THEN Str(Trim(search)) ELSE Null,
         IF category # All THEN Str(category) ELSE Null,
         IF source # All THEN Str(source) ELSE Null,
         Null, Null, Null, Null)

DataFetch(id, search, category, source) ==
  [id |-> id, kind |-> "data", params |-> PageParams(search, category, source)]

MetadataFetch(id) == [id |-> id, kind |-> "stats", params |-> NoParams]

\* the first render: the effect without dependencies calls fetchMetadata
\* and fetchData(), the effect of the filters calls fetchData with the
\* initial filters
Mount ==
  /\ ~dashboard.mounted
  /\ dashboard' = [dashboard EXCEPT !.mounted = TRUE, !.isLoading = TRUE]
  /\ inFlight' = inFlight
                  \cup {MetadataFetch(issued + 1),
                        DataFetch(issued + 2, <<>>, All, All),
                        DataFetch(issued + 3, dashboard.searchTerm,
                                  dashboard.selectedCategory,
                                  dashboard.selectedSource)}
  /\ issued' = issued + 3
  /\ UNCHANGED <<serverVars, scriptVars>>

\* the filters the user chooses among
Selections ==
  { <<s, c, All>> : s \in {<<>>, fa}, c \in {All, Fa} }

\* the user changes the search text or a filter, which the page shows only
\* while it is not loading; the effect of the filters calls fetchData
Select(selection) ==
  /\ dashboard.mounted
  /\ ~dashboard.isLoading
  /\ issued < MaxRequests
  /\ selection # <<dashboard.searchTerm, dashboard.selectedCategory,
                    dashboard.selectedSource>>
  /\ dashboard' = [dashboard EXCEPT !.searchTerm = selection[1],
                                    !.selectedCategory = selection[2],
                                    !.selectedSource = selection[3],
                                    !.isLoading = TRUE,
                                    !.latestFailed = FALSE]
  /\ inFlight' = inFlight
                  \cup {DataFetch(issued + 1, selection[1], selection[2],
                                  selection[3])}
  /\ issued' = issued + 1
  /\ UNCHANGED <<serverVars, scriptVars>>

\* the response to a fetchData request arrives: the records are shown when
\* the response is ok, and isLoading is reset in either case
ReceiveData(req, fault, scan) ==
  /\ req \in inFlight
  /\ req.kind = "data"
  /\ Idle
  /\ \E r \in { DataRoute(req.params, [content |-> content,
                                        dbInstance |-> dbInstance,
                                        fault |-> fault, scan |-> scan]) } :
        /\ dashboard' =
             [dashboard EXCEPT
                !.data = IF r.status = 200 THEN r.body ELSE @,
                !.filteredData = IF r.status = 200 THEN r.body ELSE @,
                !.isLoading = FALSE,
                !.latestFailed = IF req.id = issued THEN r.status # 200
                                 ELSE @]
        /\ content' = r.content
        /\ dbInstance' = r.dbInstance
        /\ connections' = connections + r.opened
  /\ inFlight' = inFlight \ {req}
  /\ UNCHANGED <<request, storeFault, response, served, sequence, migration,
                 issued, scriptVars>>

\* the response to fetchMetadata arrives
ReceiveMetadata(req, fault, scan) ==
  /\ req \in inFlight
  /\ req.kind = "stats"
  /\ Idle
  /\ \E r \in { StatsRoute([content |-> content, dbInstance |-> dbInstance,
                             fault |-> fault, at |-> 1, scan |-> scan]) } :
        /\ dashboard' =
             [dashboard EXCEPT
                !.categories = IF r.status = 200 THEN r.categories ELSE @,
                !.sources = IF r.status = 200 THEN r.sources ELSE @]
        /\ content' = r.content
        /\ dbInstance' = r.dbInstance
        /\ connections' = connections + r.opened
  /\ inFlight' = inFlight \ {req}
  /\ UNCHANGED <<request, storeFault, response, served, sequence, migration,
                 issued, scriptVars>>

InitDashboard ==
  /\ content \in TablesOf(0) \cup { WithIds(<<TextRow(0), TextRow(1)>>) }
  /\ Started

NextDashboard ==
  \/ Mount
  \/ \E selection \in Selections : Select(selection)
  \/ \E req \in inFlight, fault \in {"none", "query"},
        scan \in Scans(Len(content)) : ReceiveData(req, fault, scan)
  \/ \E req \in inFlight, fault \in {"none", "query"},
        scan \in Scans(Len(content)) : ReceiveMetadata(req, fault, scan)

SpecDashboard == InitDashboard /\ [][NextDashboard]_vars

(***************************************************************************)
(* The preview-image script.  A row is known by its place in the CSV; an   *)
(* item of withConcurrency and a result of the iterator are such places,   *)
(* as the iterators return the row object they were given.  The script     *)
(* passes the limits 6 and 3; here a limit is drawn from 1..MaxWorkers, so *)
(* that it binds on the few rows of the model.                             *)
(***************************************************************************)
Min(a, b) == IF a <= b THEN a ELSE b

\* a plausible slip: one worker for every item
WorkerCountOfItems(limit, n) == n

\* Math.min(limit, items.length)
WorkerCount(limit, n) == Min(limit, n)

\* a plausible slip: results.push(...) as the calls complete
StoreAtNextFree(results, current, value) ==
  [results EXCEPT
     ![CHOOSE k \in 1..Len(results) :
         results[k] = 0 /\ \A j \in 1..(k - 1) : results[j] # 0] = value]

\* results[current] = await iterator(items[current], current)
StoreResult(results, current, value) == [results EXCEPT ![current] = value]

\* a plausible slip: the URL of the entry is not looked at
NeedsScreenshotAny(row) == row.preview = <<>>

\* !entry[PREVIEW_HEADER] && entry.URL
NeedsScreenshot(row) == row.preview = <<>> /\ row.URL # <<>>

\* the metadata iterator fetches the page of a row that has no preview,
\* when the row has a URL
FetchesMetadata(row) == row.preview = <<>> /\ row.URL # <<>>

\* the fetch the iterator of the phase makes when it is called for a row
FetchesOf(during, place, row) ==
  IF during = "screenshots" \/ FetchesMetadata(row)
  THEN {[kind |-> IF during = "metadata" THEN "metadata" ELSE "screenshot",
         row |-> place, during |-> during, preview |-> row.preview]}
  ELSE {}

\* withConcurrency up to Promise.all: the workers are created one after
\* the other, and each takes the next item and calls the iterator
StartPool(items, limit) ==
  LET n == Len(items)
      w == WorkerCount(limit, n)
  IN [items |-> items, limit |-> limit, index |-> w,
      results |-> [i \in 1..n |-> 0],
      workers |-> [k \in 1..w |-> k],
      calls |-> [i \in 1..n |-> IF i <= w THEN 1 ELSE 0],
      returned |-> FALSE]

\* the fetches of the calls StartPool makes
StartFetches(during, started, table) ==
  UNION { FetchesOf(during, started.items[started.workers[k]],
                    table[started.items[started.workers[k]]]) :
            k \in 1..Len(started.workers) }

\* the lines written: one for every entry of metadataResults (the header
\* line, which is the same for every input, is left out)
OutputLines(results, table) ==
  [i \in 1..Len(results) |->
     [place |-> results[i], URL |-> table[results[i]].URL,
      Preview_Image_URL |-> table[results[i]].preview]]

\* the rows a CSV may hold: with or without URL, with or without preview
PreviewInputs ==
  UNION { [1..n -> { [URL |-> u, preview |-> pv, given |-> pv] :
                       u \in {<<>>, Url}, pv \in {<<>>, <<"p">>} }] :
            n \in 0..MaxItems }

\* main up to the first await: the CSV is read and parsed, and the
\* metadata phase is started
ReadCsv(input, limit) ==
  /\ phase = "idle"
  /\ csvRows' = input
  /\ phase' = "metadata"
  /\ \E started \in { StartPool([i \in 1..Len(input) |-> i], limit) } :
        /\ pool' = started
        /\ fetched' = fetched \cup StartFetches("metadata", started, input)
  /\ UNCHANGED <<metadataResults, output, serverVars, pageVars>>

\* the iterator call of worker w settles, its fetch having found an image
\* or not; the worker stores the result and takes the next item, if any
Settle(w, found) ==
  /\ phase \in {"metadata", "screenshots"}
  /\ w \in 1..Len(pool.workers)
  /\ pool.workers[w] # 0
  /\ LET current == pool.workers[w]
         place == pool.items[current]
         row == csvRows[place]
         preview ==
           IF phase = "metadata"
           THEN IF row.preview # <<>> THEN row.preview
                ELSE IF found /\ row.URL # <<>> THEN <<"m">> ELSE <<>>
           ELSE IF found THEN <<"s">> ELSE row.preview
         more == pool.index < Len(pool.items)
         next == pool.index + 1
     IN /\ csvRows' = [csvRows EXCEPT ![place].preview = preview]
        /\ pool' =
             [pool EXCEPT
                !.results = StoreResult(@, current, place),
                !.workers[w] = IF more THEN next ELSE 0,
                !.index = IF more THEN next ELSE @,
                !.calls = IF more THEN [@ EXCEPT ![next] = @ + 1] ELSE @]
        /\ fetched' =
             IF more
             THEN fetched \cup FetchesOf(phase, pool.items[next],
                                         csvRows[pool.items[next]])
             ELSE fetched
  /\ UNCHANGED <<phase, metadataResults, output, serverVars, pageVars>>

\* every worker has ended: Promise.all resolves and withConcurrency returns
Return ==
  /\ phase \in {"metadata", "screenshots"}
  /\ ~pool.returned
  /\ \A w \in 1..Len(pool.workers) : pool.workers[w] = 0
  /\ pool' = [pool EXCEPT !.returned = TRUE]
  /\ UNCHANGED <<csvRows, phase, metadataResults, fetched, output,
                 serverVars, pageVars>>

\* main after the metadata phase: the screenshot phase is started for the
\* entries that need one, or the CSV is written when there is none
AfterMetadata(limit) ==
  /\ phase = "metadata"
  /\ pool.returned
  /\ metadataResults' = pool.results
  /\ LET needsScreenshots ==
           SelectSeq(pool.results, LAMBDA pl : NeedsScreenshot(csvRows[pl]))
     IN IF needsScreenshots # <<>>
        THEN /\ phase' = "screenshots"
             /\ \E started \in { StartPool(needsScreenshots, limit) } :
                   /\ pool' = started
                   /\ fetched' = fetched
                        \cup StartFetches("screenshots", started, csvRows)
             /\ UNCHANGED output
        ELSE /\ phase' = "written"
             /\ output' = OutputLines(pool.results, csvRows)
             /\ UNCHANGED <<pool, fetched>>
  /\ UNCHANGED <<csvRows, serverVars, pageVars>>

\* main after the screenshot phase: the CSV is written
AfterScreenshots ==
  /\ phase = "screenshots"
  /\ pool.returned
  /\ phase' = "written"
  /\ output' = OutputLines(metadataResults, csvRows)
  /\ UNCHANGED <<csvRows, pool, metadataResults, fetched, serverVars,
                 pageVars>>

InitPreview ==
  /\ content = <<>>
  /\ Started

NextPreview ==
  \/ \E input \in PreviewInputs, limit \in 1..MaxWorkers :
       ReadCsv(input, limit)
  \/ \E w \in 1..MaxItems, found \in BOOLEAN : Settle(w, found)
  \/ Return
  \/ \E limit \in 1..MaxWorkers : AfterMetadata(limit)
  \/ AfterScreenshots

SpecPreview == InitPreview /\ [][NextPreview]_vars

\* Tables whose rows differ in the columns the statistics read: minutes
\* (in hundredths), upvotes and views.
StatsRow(cat, src, minutes, up, vw) ==
  [Row(cat, src, Vi, Be, ScoreVals[1], ScoreVals[1])
     EXCEPT !.time_spent_minutes = minutes, !.upvotes = up, !.views = vw]

StatsPool ==
  <<StatsRow(St, Tt, 25, 2, 0), StatsRow(Fa, Ig, 10, 1, 5),
    StatsRow(St, Ig, 0, 0, 7), StatsRow(Fa, Tt, 15, 3, 3)>>

StatsTablesUpTo(n) ==
  UNION { { WithIds([i \in 1..m |-> StatsPool[ix[i]]]) :
              ix \in [1..m -> 1..Len(StatsPool)] } : m \in 0..n }

InitStats ==
  /\ content \in StatsTablesUpTo(MaxRows)
  /\ Started

\* the data requests made between the statistics requests
StatsDataRequests ==
  { Params(s, c, Null, Null, Null, Null, Null) :
      s \in {Null, Str(fa)}, c \in {Null, Str(St)} }

\* both routes and closeDatabase, on a store that may fail
NextStats ==
  \/ /\ Idle
     /\ \E params \in StatsDataRequests, fault \in Faults,
           scan \in Scans(Len(content)) :
          GET(params, fault, scan) /\ UNCHANGED served
  \/ \E fault \in Faults, at \in 1..3, scan \in Scans(Len(content)) :
       GETStats(fault, at, scan)
  \/ Close
  \/ Send

SpecStats == InitStats /\ [][NextStats]_vars

(***************************************************************************)
(* What the claims speak of.                                               *)
(***************************************************************************)
\* the route answered the request with data
Answered == response.status = 200

Body == response.body

Ids(body) == { body[i].id : i \in 1..Len(body) }

\* a filter value that asks for something: present, not empty, not "All"
Supplied(v) == Truthy(v) /\ v.text # All

\* the record agrees with every equality filter the request supplies
SatisfiesFilters(item, params) ==
  /\ Supplied(params.category) => item.Category = params.category.text
  /\ Supplied(params.source) => item.Source = params.source.text
  /\ Supplied(params.contentType) => item.Content_Type = params.contentType.text
  /\ Supplied(params.difficultyLevel)
       => item.Difficulty_Level = params.difficultyLevel.text

\* the search predicate as the store evaluates it: one of the four columns
\* is LIKE %q%
SearchHolds(item, q) ==
  \/ Like(item.Category, Wrap(q))
  \/ Like(item.Source, Wrap(q))
  \/ Like(item.Content_Type, Wrap(q))
  \/ Like(item.Difficulty_Level, Wrap(q))

\* C1: every record the data route returns satisfies every equality filter
\* the request supplies (category, source, contentType, difficultyLevel) and,
\* when search text is supplied, the search predicate -- with and without
\* search text.
C1_ReturnedSatisfyFilters ==
  Answered =>
    \A i \in 1..Len(Body) :
      /\ SatisfiesFilters(Body[i], request)
      /\ IsSearch(request) => SearchHolds(Body[i], RouteSearch(request))

\* C2: the records returned by getAllContent and by searchContent are in
\* descending order of engagement_score, and adjacent records with equal
\* engagement_score are in descending order of trending_score.
C2_OrderedByScores ==
  Answered =>
    \A i \in 1..(Len(Body) - 1) :
      \/ Body[i].Engagement_Score > Body[i + 1].Engagement_Score
      \/ /\ Body[i].Engagement_Score = Body[i + 1].Engagement_Score
         /\ Body[i].Trending_Score >= Body[i + 1].Trending_Score

\* C2's case: a search answered with two records that tie on engagement_score
\* and differ on trending_score
C2_Witness ==
  /\ Answered
  /\ IsSearch(request)
  /\ Len(Body) = 2
  /\ Body[1].Engagement_Score = Body[2].Engagement_Score
  /\ Body[1].Trending_Score > Body[2].Trending_Score

\* the limit of the request, when it is the text of an integer N >= 0
HasLimit(params) ==
  /\ Truthy(params.limit)
  /\ parseInt(params.limit.text).kind = "int"
  /\ parseInt(params.limit.text).n >= 0

LimitOf(params) == parseInt(params.limit.text).n

\* C3: a request that carries limit=N, N >= 0, is answered with at most N
\* records, with or without search text and other filters.
C3_AtMostLimit ==
  (Answered /\ HasLimit(request)) => Len(Body) <= LimitOf(request)

\* the offset of the request, when it is the text of an integer K >= 0
HasOffset(params) ==
  /\ Truthy(params.offset)
  /\ parseInt(params.offset.text).kind = "int"
  /\ parseInt(params.offset.text).n >= 0

OffsetOf(params) == parseInt(params.offset.text).n

\* the same request without limit and offset
Unpaged(params) == [params EXCEPT !.limit = Null, !.offset = Null]

\* the records the route answers to params on the present table, the store
\* working, when the plan visits the rows in the order scan
AnswerTo(params, scan) ==
  DataRoute(params, [content |-> content, dbInstance |-> "configured",
                     fault |-> "none", scan |-> scan]).body

\* the statement the route has the store run for params
StatementOf(params) ==
  IF IsSearch(params)
  THEN searchContentStatement(RouteSearch(params), RouteFilters(params))
  ELSE getAllContentStatement(RouteFilters(params))

\* elements k+1 .. k+n of s, as many as exist
Slice(s, k, n) == SubSeq(s, k + 1, IF k + n <= Len(s) THEN k + n ELSE Len(s))

\* C4: getAllContent with limit=N > 0 and offset=K >= 0 returns exactly the
\* elements K+1 .. K+N (as many as exist) of the ordered result of the same
\* request without limit and offset.
C4_PageIsSliceOfUnpaged ==
  (Answered /\ ~IsSearch(request) /\ HasLimit(request) /\ LimitOf(request) > 0
            /\ HasOffset(request)) =>
    \A scan \in Scans(Len(content)) :
      Body = Slice(AnswerTo(Unpaged(request), scan),
                   OffsetOf(request), LimitOf(request))

\* the same request without its offset
WithoutOffset(params) == [params EXCEPT !.offset = Null]

\* C5: a request that supplies an offset but no limit is answered with the
\* same sequence of records as the same request with neither: the store is
\* given the same statement, and whatever order its plan visits the rows in,
\* both requests get the same sequence.
C5_OffsetAloneIsNoOp ==
  (Answered /\ request.offset.present /\ ~request.limit.present) =>
    /\ StatementOf(request) = StatementOf(WithoutOffset(request))
    /\ \A scan \in Scans(Len(content)) :
         AnswerTo(request, scan) = Body
           => AnswerTo(WithoutOffset(request), scan) = Body

\* C5's case: an offset of 1 and no limit, answered with every stored record
C5_Witness ==
  /\ Answered
  /\ request.offset = Str(DigitText(1))
  /\ ~request.limit.present
  /\ Len(content) >= 1
  /\ Len(Body) = Len(content)

\* the records the route answers to params under some plan
Answers(params) == { AnswerTo(params, scan) : scan \in Scans(Len(content)) }

\* C6: for each of the four filter fields, a request whose value for that
\* field is the literal "All" is answered like the same request with that
\* filter absent.
C6_AllMeansNoFilter ==
  Answered =>
    /\ request.category = Str(All)
         => Body \in Answers([request EXCEPT !.category = Null])
    /\ request.source = Str(All)
         => Body \in Answers([request EXCEPT !.source = Null])
    /\ request.contentType = Str(All)
         => Body \in Answers([request EXCEPT !.contentType = Null])
    /\ request.difficultyLevel = Str(All)
         => Body \in Answers([request EXCEPT !.difficultyLevel = Null])

\* q is a literal substring of s, up to ASCII case
Contains(s, q) ==
  \E i \in 0..(Len(s) - Len(q)) :
    \A j \in 1..Len(q) : Lower(s[i + j]) = Lower(q[j])

\* q is a literal substring, up to case, of one of the four searched columns
LiteralMatch(row, q) ==
  \/ Contains(row.category, q)
  \/ Contains(row.source, q)
  \/ Contains(row.content_type, q)
  \/ Contains(row.difficulty_level, q)

StoredIds(P(_)) == { content[i].id : i \in { j \in 1..Len(content) : P(content[j]) } }

\* C7: a record satisfies the search predicate of searchContent exactly when
\* the search text, compared case-insensitively, is a literal substring of
\* its category, source, content_type or difficulty_level -- for every
\* search text, '%' and '_' included.
C7_SearchIsLiteralSubstring ==
  (Answered /\ IsSearch(request) /\ ~Supplied(request.category)
            /\ ~Supplied(request.source)) =>
    Ids(Body) = StoredIds(LAMBDA row : LiteralMatch(row, RouteSearch(request)))

NoDuplicates(body) ==
  \A i, j \in 1..Len(body) : i # j => body[i].id # body[j].id

\* the stored row satisfies the filters and the search text of the request
Matches(row, params) ==
  /\ SatisfiesFilters(Transform(row), params)
  /\ IsSearch(params) => SearchHolds(Transform(row), RouteSearch(params))

\* C8: with no limit supplied, the answer holds every stored record that
\* satisfies the supplied filters and the search predicate, each exactly
\* once, and no other record.
C8_AllMatchesOnce ==
  (Answered /\ ~request.limit.present) =>
    /\ NoDuplicates(Body)
    /\ Ids(Body) = StoredIds(LAMBDA row : Matches(row, request))

\* the request of the example: source=Instagram, search="fashion"
ExampleRequest == Params(Str(fa), Null, Str(Ig), Null, Null, Null, Null)

\* the records from Instagram whose category contains "Fashion"
InstagramFashion ==
  StoredIds(LAMBDA row : row.source = Ig /\ Contains(row.category, Fa))

\* the dataset of the example: three records, exactly one of them from
\* Instagram with a category containing "Fashion"
ExampleDataset == Len(content) = 3 /\ Cardinality(InstagramFashion) = 1

\* C9 as stated: on the example dataset, source=Instagram with
\* search="fashion" returns exactly that one record.
C9_ExactlyThatRecord ==
  (Answered /\ request = ExampleRequest /\ ExampleDataset) =>
    (Len(Body) = 1 /\ Ids(Body) = InstagramFashion)

\* C9, amended: on the example dataset, source=Instagram with
\* search="fashion" returns that record, once, together with every other
\* Instagram record whose content_type or difficulty_level contains
\* "fashion", and nothing else; it returns exactly that one record when there
\* is no such other record.
C9_ThatRecordAndOtherMatches ==
  (Answered /\ request = ExampleRequest /\ ExampleDataset) =>
    /\ InstagramFashion \subseteq Ids(Body)
    /\ NoDuplicates(Body)
    /\ Ids(Body) =
         StoredIds(LAMBDA row :
           /\ row.source = Ig
           /\ \/ Contains(row.category, fa)
              \/ Contains(row.content_type, fa)
              \/ Contains(row.difficulty_level, fa))

\* C9's case: the example request answered on the example dataset with
\* that one record
C9_Witness ==
  /\ Answered
  /\ request = ExampleRequest
  /\ ExampleDataset
  /\ Len(Body) = 1

\* C10: a request whose filters or search text match no stored record is
\* answered without an error, with an empty sequence (the store working).
C10_NoMatchIsEmptySuccess ==
  (response # NoResponse /\ storeFault = "none"
     /\ \A i \in 1..Len(content) : ~Matches(content[i], request)) =>
    (response.status = 200 /\ ~response.error /\ Body = <<>>)

(***************************************************************************)
(* Malformed parameters and the SQL text                                   *)
(***************************************************************************)
\* the parameter is given and is not the decimal text of a number >= 0
Malformed(v) ==
  /\ Truthy(v)
  /\ \E i \in 1..Len(v.text) : ~IsDigit(v.text[i])

ValidationError == response.status >= 400 /\ response.status < 500

\* C14: a data request whose limit or offset is not a valid non-negative
\* integer fails with a validation error; it is never answered as if the
\* parameter were absent, zero or unlimited.
C14_MalformedIsRejected ==
  (response.route = "data"
     /\ (Malformed(request.limit) \/ Malformed(request.offset)))
  => (ValidationError /\ response.error)

\* the parameters of the filters object that are supplied
Present(params) ==
  LET f == RouteFilters(params) IN
  { n \in {"category", "source", "contentType", "difficultyLevel"} :
      f[n] # Undefined }
  \cup { n \in {"limit", "offset"} : f[n] # NumUndefined }

\* the parameters the query called for params acts on
InEffect(params) ==
  LET f == RouteFilters(params) IN
  { n \in {"category", "source"} : IsFilter(f[n]) }
  \cup (IF IsSearch(params) THEN {}
        ELSE { n \in {"contentType", "difficultyLevel"} : IsSet(f[n]) }
             \cup { n \in {"limit"} : TruthyNum(f.limit) }
             \cup { n \in {"offset"} :
                      TruthyNum(f.limit) /\ TruthyNum(f.offset) })

\* the SQL the queries are written from
FixedFragments ==
  {SelectFrom, SelectFromSearch, Where, And, CategoryEq, SourceEq,
   ContentTypeEq, DifficultyEq, OrderBy, LimitClause, OffsetClause}

\* the values a request supplies, as they come to the queries
SuppliedValues(params) ==
  LET f == RouteFilters(params) IN
  { TextParam(f[n].text) :
      n \in {"category", "source", "contentType", "difficultyLevel"} }
  \cup { IntParam(f.limit.n), IntParam(f.offset.n),
         TextParam(Wrap(RouteSearch(params))) }

\* C20, as stated: two calls of the same query that supply the same set of
\* parameters, with whatever values, produce the same SQL text, and every
\* user-supplied value reaches the store only as a bound parameter.
C20_TextDependsOnPresenceOnly ==
  response.route = "data"
  => /\ \A other \in ParamRequests :
          (IsSearch(other) = IsSearch(request)
             /\ Present(other) = Present(request))
          => StatementOf(other).sql = StatementOf(request).sql
     /\ \A i \in 1..Len(StatementOf(request).sql) :
          StatementOf(request).sql[i] \in FixedFragments

\* C20, amended: the SQL text depends only on which parameters are in
\* effect (category and source when given and not 'All'; for getAllContent
\* also contentType and difficultyLevel when not empty, limit when a number
\* other than 0, offset when such a number next to such a limit); the text
\* is made of fixed fragments only, and the values are bound parameters.
C20_TextDependsOnEffectOnly ==
  response.route = "data"
  => /\ \A other \in ParamRequests :
          (IsSearch(other) = IsSearch(request)
             /\ InEffect(other) = InEffect(request))
          => StatementOf(other).sql = StatementOf(request).sql
     /\ \A i \in 1..Len(StatementOf(request).sql) :
          StatementOf(request).sql[i] \in FixedFragments
     /\ \A i \in 1..Len(StatementOf(request).params) :
          StatementOf(request).params[i] \in SuppliedValues(request)

\* a category and a limit are bound
C20_Witness ==
  /\ response.route = "data"
  /\ response.status = 200
  /\ request.category = Str(Fa)
  /\ {"category", "limit"} \subseteq InEffect(request)

(***************************************************************************)
(* Rate limiting                                                           *)
(***************************************************************************)
\* C19: once a client IP has made 100 requests within a window of one hour,
\* its further requests to the data route in that window are rejected, not
\* served.
C19_ServedWithinLimit == served <= RateLimit

(***************************************************************************)
(* The migration                                                           *)
(***************************************************************************)
WithoutId(row) == [row EXCEPT !.id = 0]

\* C18: after a migration run that completes successfully the table holds
\* exactly the records parsed from the CSV, one row per parsed record in
\* CSV order, and none of the rows stored before the run.
C18_TableIsParsedCsv ==
  migration.pc = "done"
  => /\ Len(content) = Len(parseCSV(migration.csv))
     /\ \A i \in 1..Len(content) :
          /\ WithoutId(content[i]) = parseCSV(migration.csv)[i]
          /\ content[i].id = sequence - Len(content) + i

\* two records parsed, after a run on a table that held a row
C18_Witness ==
  /\ migration.pc = "done"
  /\ Len(content) = 2
  /\ content[1].id > 1
  /\ content[1].category # content[2].category

\* C21: every record the migration stores satisfies the data model:
\* category and url are not empty, time_spent_minutes, upvotes and views
\* are not negative, engagement_score and trending_score lie in [0,1].
C21_StoredRecordsAreValid ==
  migration.pc = "done"
  => \A i \in 1..Len(content) :
       /\ content[i].category # <<>>
       /\ content[i].url # <<>>
       /\ content[i].time_spent_minutes >= 0
       /\ content[i].upvotes >= 0
       /\ content[i].views >= 0
       /\ content[i].engagement_score \in 0..1
       /\ content[i].trending_score \in 0..1

\* C22: if inserting the new records fails, the table afterwards still
\* holds the records it held before the migration started.
C22_FailureKeepsTable ==
  migration.pc = "failed" => content = migration.before

(***************************************************************************)
(* The statistics, the connection and the stored records                   *)
(***************************************************************************)
StatsAnswered == response.route = "stats" /\ response.status = 200

\* C11: on an empty dataset getContentStats does not raise, and every
\* aggregate it returns (totalContent, avgTimeSpent, totalUpvotes,
\* totalViews) is the number zero.
C11_EmptyStatsAreZero ==
  (response.route = "stats" /\ content = <<>> /\ storeFault = "none")
  => /\ response.status = 200
     /\ response.stats.totalContent = Num(0)
     /\ response.stats.avgTimeSpent = Num(0)
     /\ response.stats.totalUpvotes = Num(0)
     /\ response.stats.totalViews = Num(0)

\* the sum of a column over the first k stored records
RECURSIVE TotalUpTo(_, _)
TotalUpTo(name, k) ==
  IF k = 0 THEN 0 ELSE content[k][name] + TotalUpTo(name, k - 1)

\* C12: on a non-empty dataset the statistics count every stored record and
\* sum upvotes and views over all of them, whatever the data requests made
\* before filtered on.
C12_StatsCoverEveryRecord ==
  (StatsAnswered /\ content # <<>>)
  => /\ response.stats.totalContent = Num(Len(content))
     /\ response.stats.totalUpvotes = Num(TotalUpTo("upvotes", Len(content)))
     /\ response.stats.totalViews = Num(TotalUpTo("views", Len(content)))

C12_Witness ==
  /\ StatsAnswered
  /\ Len(content) = 2
  /\ TotalUpTo("upvotes", 2) # TotalUpTo("views", 2)
  /\ TotalUpTo("upvotes", 2) > content[1].upvotes

Ascending(list) ==
  \A i \in 1..(Len(list) - 1) : TextBefore(list[i], list[i + 1])

Members(list) == { list[i] : i \in 1..Len(list) }

\* C13: getCategories and getSources each list, without duplicates and in
\* ascending order, exactly the values that occur in a stored record; on an
\* empty dataset both lists are empty.
C13_ListsAreDistinctSorted ==
  StatsAnswered
  => /\ Ascending(response.categories)
     /\ Ascending(response.sources)
     /\ Members(response.categories)
          = { content[i].category : i \in 1..Len(content) }
     /\ Members(response.sources)
          = { content[i].source : i \in 1..Len(content) }
     /\ content = <<>>
          => response.categories = <<>> /\ response.sources = <<>>

\* two categories listed, stored in descending order
C13_Witness ==
  /\ StatsAnswered
  /\ Len(response.categories) = 2
  /\ Len(content) = 2
  /\ TextBefore(content[2].category, content[1].category)

\* C15: when the store cannot be opened or a query on it fails, either
\* route answers status 500 with an error body, never a success with
\* partial or empty data.
C15_StoreFailureIsServerError ==
  storeFault # "none"
  => /\ response.status = 500
     /\ response.error
     /\ response.body = <<>>
     /\ response.stats = NoStats

C15_Witness ==
  /\ storeFault = "query"
  /\ response.route = "data"
  /\ response.status = 500
  /\ content # <<>>

\* the step is one of the routes answering a request, that is, a call of
\* the queries of lib/database
QueryStep == Idle /\ ~Idle'

\* C16: at most one connection is open at any time; a connection is opened
\* only by a query made while none is open, and every query made while one
\* is open reuses it.
C16_OneConnection ==
  [][/\ connections' <= 1
     /\ connections' > connections => (QueryStep /\ dbInstance = "null")
     /\ (QueryStep /\ dbInstance # "null")
          => (dbInstance' = dbInstance /\ connections' = connections)]_vars

C16_Witness ==
  /\ connections = 1
  /\ dbInstance = "configured"
  /\ StatsAnswered

\* C17: no request to either route changes the stored records.
C17_RequestsLeaveRecords ==
  [][QueryStep => content' = content]_vars

C17_Witness ==
  /\ response.route = "data"
  /\ response.status = 200
  /\ Len(response.body) = 2

\* C28: if a getDatabase call fails, opening the file or applying a pragma,
\* no connection is retained: the next call opens and configures again and
\* never returns a connection whose configuration did not complete.
C28_FailedOpenRetainsNothing ==
  /\ storeFault \in {"open", "pragma"}
       => (dbInstance = "null" /\ connections = 0)
  /\ dbInstance # "unconfigured"

(***************************************************************************)
(* Pages and white space                                                   *)
(***************************************************************************)
\* the pages of limit n asked for at the offsets k, k + n, ... one after
\* the other, the request at offset j answered under the plan scanOf[j]
RECURSIVE PagesFrom(_, _, _, _)
PagesFrom(params, k, n, scanOf) ==
  IF k > Len(content) THEN <<>>
  ELSE AnswerTo([params EXCEPT !.offset = Str(DigitText(k))], scanOf[k])
       \o PagesFrom(params, k + n, n, scanOf)

\* C29: for every N > 0 and every filter combination, the getAllContent
\* pages of limit N at the offsets 0, N, 2N, ... together hold every
\* matching record exactly once, also when records tie on both scores.
C29_PagesPartitionTheResult ==
  (Answered /\ ~IsSearch(request) /\ HasLimit(request)
            /\ LimitOf(request) > 0)
  => \A scanOf \in [0..Len(content) -> Scans(Len(content))] :
       LET pages == PagesFrom(request, 0, LimitOf(request), scanOf) IN
       /\ NoDuplicates(pages)
       /\ \A scan \in Scans(Len(content)) :
            Ids(pages) = Ids(AnswerTo(Unpaged(request), scan))

\* C30: the data route ignores white space around the search text: the
\* request with search text s is answered with the records of the request
\* with s trimmed, and a search text that is blank after trimming with the
\* records of the request without search.
C30_SearchIsTrimmed ==
  (Answered /\ request.search.present)
  => \A scan \in Scans(Len(content)) :
       Ids(Body)
         = Ids(AnswerTo([request EXCEPT
                           !.search = IF Trim(request.search.text) = <<>>
                                      THEN Null
                                      ELSE Str(Trim(request.search.text))],
                        scan))

(***************************************************************************)
(* The dashboard page                                                      *)
(***************************************************************************)
DataInFlight == { req \in inFlight : req.kind = "data" }

\* C26: once every data request in flight has completed, the records the
\* page displays are the response to the most recent selection of search
\* text, category and source, in whatever order the responses arrived.
C26_DisplayedIsLatestSelection ==
  (dashboard.mounted /\ DataInFlight = {} /\ ~dashboard.latestFailed)
  => dashboard.data
       \in Answers(PageParams(dashboard.searchTerm,
                              dashboard.selectedCategory,
                              dashboard.selectedSource))

\* C27: isLoading is true in every state in which a data request started
\* by fetchData has not completed, also when requests overlap.
C27_LoadingWhileInFlight ==
  DataInFlight # {} => dashboard.isLoading

(***************************************************************************)
(* The preview-image script                                                *)
(***************************************************************************)
\* C23: a row that already has a preview is never fetched and keeps its
\* value; the screenshot fallback is requested only for rows that have a
\* URL and no preview after the metadata phase, and only after the
\* metadata phase has finished for every row.
C23_FetchesOnlyWhereNeeded ==
  /\ \A i \in 1..Len(csvRows) :
       csvRows[i].given # <<>>
       => /\ csvRows[i].preview = csvRows[i].given
          /\ \A f \in fetched : f.row # i
  /\ \A f \in fetched :
       f.kind = "screenshot"
       => /\ csvRows[f.row].URL # <<>>
          /\ f.preview = <<>>
          /\ f.during = "screenshots"
          /\ Len(metadataResults) = Len(csvRows)

\* a screenshot was requested next to a row that came with a preview
C23_Witness ==
  /\ \E f \in fetched : f.kind = "screenshot"
  /\ \E i \in 1..Len(csvRows) : csvRows[i].given # <<>>
  /\ \E i \in 1..Len(csvRows) : csvRows[i].URL = <<>>

CallsInFlight == { w \in 1..Len(pool.workers) : pool.workers[w] # 0 }

\* C24: withConcurrency never has more than limit iterator calls in flight,
\* calls the iterator exactly once for every item, and resolves only after
\* every call has settled, however the calls complete.
C24_BoundedOnceAndComplete ==
  /\ phase # "idle" => Cardinality(CallsInFlight) <= pool.limit
  /\ \A i \in 1..Len(pool.calls) : pool.calls[i] <= 1
  /\ pool.returned
       => /\ CallsInFlight = {}
          /\ \A i \in 1..Len(pool.items) : pool.calls[i] = 1

\* three items under a limit of two have all been called, and returned
C24_Witness ==
  /\ pool.returned
  /\ Len(pool.items) = 3
  /\ pool.limit = 2

\* C25: whatever the order in which the calls complete, results[i] is the
\* iterator's result for items[i], and the CSV written has exactly one
\* line per input row, in the order of the input rows.
C25_ResultsInItemOrder ==
  /\ pool.returned => pool.results = pool.items
  /\ phase = "written"
       => /\ Len(output) = Len(csvRows)
          /\ \A i \in 1..Len(output) : output[i].place = i

\* three lines written after a screenshot phase
C25_Witness ==
  /\ phase = "written"
  /\ Len(output) = 3
  /\ \E f \in fetched : f.kind = "screenshot"
  /\ pool.limit = 2

====
